---- MODULE Spec2Model ----
(***************************************************************************)
(* body-validator-v2: the rule library (src/common.js) and the Validator   *)
(* class (src/index.js) as a state machine over JavaScript values.         *)
(*                                                                         *)
(* JavaScript values are tagged records; every tag has its own payload     *)
(* field.  A JavaScript string is a TLA+ string, so that messages are      *)
(* built, joined and searched as the code builds them.  A call's outcome   *)
(* is Ret(v) (it returned v) or Throw(m) (it raised an error with          *)
(* message m).                                                             *)
(***************************************************************************)
EXTENDS Integers, Sequences, FiniteSets, TLC

VARIABLES fields, last

vars == <<fields, last>>

----------------------------------------------------------------------------
(* JavaScript values *)

Undefined == [t |-> "undefined"]
Null == [t |-> "null"]
Bool(b) == [t |-> "boolean", b |-> b]
Num(n) == [t |-> "number", n |-> n]
Str(s) == [t |-> "string", s |-> s]
Arr(a) == [t |-> "array", a |-> a]
Obj(o) == [t |-> "object", o |-> o]
\* an instance of class Validator, by identity
Inst(id) == [t |-> "instance", id |-> id]
\* the object literal {}
EmptyObj == Obj([k \in {} |-> Undefined])

Ret(v) == [k |-> "return", v |-> v]
Throw(m) == [k |-> "throw", m |-> m]

\* typeof v
TypeOf(v) ==
  CASE v.t = "undefined" -> "undefined"
    [] v.t = "boolean" -> "boolean"
    [] v.t = "number" -> "number"
    [] v.t = "string" -> "string"
    [] OTHER -> "object"

\* ToBoolean(v): what `if (v)`, `!v` and `a && b` test
Truthy(v) ==
  CASE v.t = "undefined" -> FALSE
    [] v.t = "null" -> FALSE
    [] v.t = "boolean" -> v.b
    [] v.t = "number" -> v.n # 0
    [] v.t = "string" -> v.s # ""
    [] OTHER -> TRUE

\* o[key] for an own property of a plain object, undefined otherwise (the
\* optional chaining options?.key gives undefined for a missing options too)
Get(o, key) ==
  IF o.t = "object" /\ key \in DOMAIN o.o THEN o.o[key] ELSE Undefined

\* Object.keys(o).includes(key)
HasKey(o, key) == o.t = "object" /\ key \in DOMAIN o.o

----------------------------------------------------------------------------
(* Strings *)

CharAt(s, i) == SubSeq(s, i, i)

\* c is one of the characters of the string set
CharIn(c, set) == \E i \in 1..Len(set) : CharAt(set, i) = c

\* String.prototype.includes
Includes(s, p) ==
  \E i \in 1..(Len(s) - Len(p) + 1) : SubSeq(s, i, i + Len(p) - 1) = p

RECURSIVE TrimStart(_)
TrimStart(s) ==
  IF Len(s) > 0 /\ CharAt(s, 1) = " " THEN TrimStart(Tail(s)) ELSE s

RECURSIVE TrimEnd(_)
TrimEnd(s) ==
  IF Len(s) > 0 /\ CharAt(s, Len(s)) = " "
  THEN TrimEnd(SubSeq(s, 1, Len(s) - 1)) ELSE s

\* String.prototype.trim
Trim(s) == TrimEnd(TrimStart(s))

\* Array.prototype.join over TLA+ strings
RECURSIVE Join(_, _)
Join(parts, sep) ==
  IF parts = <<>> THEN ""
  ELSE IF Len(parts) = 1 THEN parts[1]
  ELSE parts[1] \o sep \o Join(Tail(parts), sep)

\* str.split(' ').filter(x => x !== '').length: the number of maximal runs
\* of non-space characters
WordCount(s) ==
  Cardinality({i \in 1..Len(s) :
    CharAt(s, i) # " " /\ (i = 1 \/ CharAt(s, i - 1) = " ")})

DigitChars == "0123456789"
LetterChars == "abcdefghijklmnopqrstuvwxyzABCDEFGHIJKLMNOPQRSTUVWXYZ"
HexChars == "0123456789abcdefABCDEF"

\* the characters of a string, as a set
Chars(set) == {CharAt(set, i) : i \in 1..Len(set)}
Digits == Chars(DigitChars)
Letters == Chars(LetterChars)
HexDigits == Chars(HexChars)

DigitValue(c) == CHOOSE d \in 0..9 : CharAt(DigitChars, d + 1) = c

AllDigits(s) == Len(s) > 0 /\ \A i \in 1..Len(s) : CharAt(s, i) \in Digits

RECURSIVE DigitsValue(_)
DigitsValue(s) ==
  IF s = "" THEN 0
  ELSE 10 * DigitsValue(SubSeq(s, 1, Len(s) - 1)) + DigitValue(CharAt(s, Len(s)))

\* The string is a numeric literal for ToNumber: blank (0) or an optionally
\* signed run of decimal digits.  (Fractions, exponents and radix prefixes
\* are outside the alphabet of the strings this model draws.)
IsNumericString(s) ==
  LET u == Trim(s) IN
    \/ u = ""
    \/ AllDigits(u)
    \/ Len(u) > 1 /\ CharIn(CharAt(u, 1), "+-") /\ AllDigits(Tail(u))

StringToNumber(s) ==
  LET u == Trim(s) IN
    IF u = "" THEN 0
    ELSE IF CharAt(u, 1) = "-" THEN 0 - DigitsValue(Tail(u))
    ELSE IF CharAt(u, 1) = "+" THEN DigitsValue(Tail(u))
    ELSE DigitsValue(u)

\* isNaN(v), for v not an object: ToNumber(v) is NaN
IsNaN(v) ==
  CASE v.t = "undefined" -> TRUE
    [] v.t = "string" -> ~IsNumericString(v.s)
    [] OTHER -> FALSE

\* Number(v), where ~IsNaN(v)
ToNumber(v) ==
  CASE v.t = "number" -> v.n
    [] v.t = "boolean" -> IF v.b THEN 1 ELSE 0
    [] v.t = "string" -> StringToNumber(v.s)
    [] OTHER -> 0

\* `${v}` raises a TypeError: a plain object with an own property toString
\* that is not callable (no value of parsed JSON is callable) cannot be
\* converted to a primitive; an array is joined, so it raises when one of
\* its elements does.
RECURSIVE StringifyThrows(_)
StringifyThrows(v) ==
  CASE v.t = "object" -> "toString" \in DOMAIN v.o
    [] v.t = "array" -> \E i \in 1..Len(v.a) : StringifyThrows(v.a[i])
    [] OTHER -> FALSE

\* `${v}`, where it does not raise
RECURSIVE Stringify(_)
Stringify(v) ==
  CASE v.t = "undefined" -> "undefined"
    [] v.t = "null" -> "null"
    [] v.t = "boolean" -> IF v.b THEN "true" ELSE "false"
    [] v.t = "number" -> ToString(v.n)
    [] v.t = "string" -> v.s
    [] v.t = "array" ->
         Join([i \in 1..Len(v.a) |->
                 IF v.a[i].t \in {"undefined", "null"} THEN ""
                 ELSE Stringify(v.a[i])], ",")
    [] OTHER -> "[object Object]"

ToPrimitiveError == "TypeError: Cannot convert object to primitive value"

----------------------------------------------------------------------------
(* The rule library, src/common.js.  A rule's outcome is Ret(message), with *)
(* Ret(success) for a valid value, or Throw(m).                             *)

success == "success"

\* validator.isLength(str, min, max), the legacy positional form: min is
\* `arguments[1] || 0`, max bounds the length unless it is undefined
isLength(str, min, max) ==
  /\ Len(str) >= (IF min.t = "number" THEN min.n ELSE 0)
  /\ (max.t = "undefined" \/ (max.t = "number" /\ Len(str) <= max.n))

\* validator.isAlpha(symbol, locale) for some locale of `locales`; of the two
\* alphabets the strings of this model hold the Latin one only
isAlpha(symbol) == symbol \in Letters

\* validator.isAlphanumeric(symbol, locale) for some locale of `locales`
isAlphanumeric(symbol) == symbol \in Letters \/ symbol \in Digits

\* validator.isMongoId: 24 hexadecimal characters
isMongoId(str) ==
  Len(str) = 24 /\ \A i \in 1..Len(str) : CharAt(str, i) \in HexDigits

\* validator.isEmail, reduced to local@domain.tld without spaces
isEmailAddress(str) ==
  /\ ~Includes(str, " ")
  /\ \E i \in 2..Len(str) :
       /\ CharAt(str, i) = "@"
       /\ ~Includes(SubSeq(str, 1, i - 1), "@")
       /\ ~Includes(SubSeq(str, i + 1, Len(str)), "@")
       /\ \E j \in (i + 2)..(Len(str) - 1) : CharAt(str, j) = "."

\* validator.isURL(str, { require_protocol: true }), reduced to a protocol
\* followed by a dotted host without spaces
isURLAddress(str) ==
  /\ ~Includes(str, " ")
  /\ \E p \in {"http://", "https://", "ftp://"} :
       /\ Len(str) > Len(p) + 2
       /\ SubSeq(str, 1, Len(p)) = p
       /\ \E j \in (Len(p) + 2)..(Len(str) - 1) : CharAt(str, j) = "."

\* moment(str).isValid(), reduced to the ISO calendar date YYYY-MM-DD
momentIsValid(str) ==
  /\ Len(str) = 10
  /\ CharAt(str, 5) = "-" /\ CharAt(str, 8) = "-"
  /\ AllDigits(SubSeq(str, 1, 4))
  /\ AllDigits(SubSeq(str, 6, 7)) /\ DigitsValue(SubSeq(str, 6, 7)) \in 1..12
  /\ AllDigits(SubSeq(str, 9, 10)) /\ DigitsValue(SubSeq(str, 9, 10)) \in 1..31

\* the messages validateString pushes on `errors` after its early returns,
\* in the order of the code, for the trimmed string
StringErrors(str, options) ==
  LET symbols == {i \in 1..Len(str) : CharAt(str, i) # " "}
      validChars == IF Get(options, "allowSpaces") = Bool(TRUE)
                    THEN DigitChars \o " " ELSE DigitChars
      blackList == Get(options, "blackList")
      maxWords == Get(options, "maxWords")
      enum == Get(options, "enum")
      \* str.split('').some(x => ' '): the callback returns the constant ' ',
      \* which is truthy, so `some` is true for every non-empty string
      spaces ==
        IF Get(options, "allowSpaces") = Bool(FALSE) /\ Len(str) > 0
        THEN <<"can't include spaces">> ELSE <<>>
      letters ==
        IF Get(options, "include") = Str("lettersOnly")
           /\ \E i \in symbols : ~isAlpha(CharAt(str, i))
        THEN <<"must include only letters!">> ELSE <<>>
      numbers ==
        IF Get(options, "include") = Str("numbersOnly")
           /\ \E i \in 1..Len(str) : ~CharIn(CharAt(str, i), validChars)
        THEN <<"must include only numbers!">> ELSE <<>>
      both ==
        IF Get(options, "include") = Str("lettersAndNumbers")
           /\ \E i \in symbols : ~isAlphanumeric(CharAt(str, i))
        THEN <<"must include only numbers and letters!">> ELSE <<>>
      black ==
        IF blackList.t = "array"
           /\ \E i \in 1..Len(blackList.a) : Includes(str, blackList.a[i].s)
        THEN <<"can't include symbols [ " \o Stringify(blackList) \o " ]!">>
        ELSE <<>>
      words ==
        IF Truthy(maxWords) /\ WordCount(str) > maxWords.n
        THEN <<"must be max " \o Stringify(maxWords) \o " words!">> ELSE <<>>
      enumerated ==
        IF enum.t = "array" /\ \A i \in 1..Len(enum.a) : enum.a[i] # Str(str)
        THEN <<"is invalid, must be "
               \o Join([i \in 1..Len(enum.a) |-> Stringify(enum.a[i])], " or ")
               \o "!">>
        ELSE <<>>
  IN spaces \o letters \o numbers \o both \o black \o words \o enumerated

\* the minSymbols/maxSymbols message, returned at once
LengthMessage(options) ==
  LET min == Get(options, "minSymbols")
      max == Get(options, "maxSymbols")
  IN Join((IF Truthy(min)
           THEN <<"must be min. " \o Stringify(min) \o " characters">> ELSE <<>>)
          \o (IF Truthy(max)
              THEN <<"must be max. " \o Stringify(max) \o " characters">> ELSE <<>>),
          " and ") \o "!"

\* `if (errors.length) return errors.join(' | ')`, else success
JoinedOrSuccess(errors) ==
  IF Len(errors) > 0 THEN Ret(Join(errors, " | ")) ELSE Ret(success)

\* validateString from `str = str.trim()` on
TrimmedString(str, options) ==
  IF (Truthy(Get(options, "minSymbols")) \/ Truthy(Get(options, "maxSymbols")))
     /\ ~isLength(str, Get(options, "minSymbols"), Get(options, "maxSymbols"))
  THEN Ret(LengthMessage(options))
  ELSE JoinedOrSuccess(StringErrors(str, options))

validateString(str, options) ==
  IF str.t = "undefined" THEN Ret("Missing value!")
  ELSE IF str.t # "string" THEN
    IF StringifyThrows(str) THEN Throw(ToPrimitiveError)
    ELSE Ret("'" \o Stringify(str) \o "' is not a 'string' type!")
  ELSE IF Get(options, "canBeEmpty") = Bool(FALSE) /\ Len(Trim(str.s)) = 0
    THEN Ret("can't be empty!")
  ELSE TrimmedString(Trim(str.s), options)

\* `if (checkString !== success) return checkString`, then the rule's own
\* test of the string
AfterString(checkString, valid, message) ==
  IF checkString # Ret(success) THEN checkString
  ELSE IF valid THEN Ret(success)
  ELSE Ret(message)

NonEmptyString == Obj([canBeEmpty |-> Bool(FALSE)])

isMongo(str) ==
  AfterString(validateString(str, NonEmptyString), isMongoId(str.s),
              "must be valid MongoDB Id!")

isDate(str) ==
  AfterString(validateString(str, NonEmptyString), momentIsValid(str.s),
              "must be valid Date!")

WrongNumberParams == "Wrong params! max must be greater from min!"

isNumber(str, options) ==
  IF ~Truthy(str) THEN Ret("Missing value!")
  ELSE IF (str.t = "string" /\ Trim(str.s) = "") \/ TypeOf(str) = "object"
    THEN Ret("is not valid number!")
  ELSE IF IsNaN(str) THEN Ret("is not valid number!")
  ELSE IF Truthy(options) THEN
    LET min == Get(options, "min")
        max == Get(options, "max")
        n == ToNumber(str)
    IN IF Truthy(min) /\ Truthy(max) /\ min.n > max.n
         THEN Throw(WrongNumberParams)
       ELSE IF Truthy(min) /\ n < min.n
         THEN Ret("must be min " \o Stringify(min) \o "!")
       ELSE IF Truthy(max) /\ n > max.n
         THEN Ret("must be max " \o Stringify(max) \o "!")
       ELSE Ret(success)
  ELSE Ret(success)

isBoolean(str) ==
  IF str.t = "boolean" THEN Ret(success) ELSE Ret("must be Boolean!")

isEmail(str) ==
  AfterString(validateString(str, NonEmptyString), isEmailAddress(str.s),
              "must be valid e-mail address!")

isURL(str) ==
  AfterString(validateString(str, NonEmptyString), isURLAddress(str.s),
              "must be valid URL address!")

WrongArrayParams == "Wrong params! maxRecords must be greater from minRecords!"
NotAFunction == "TypeError: functions[arrayValuesType] is not a function"

RECURSIVE isArray(_, _)

\* functions[arrayValuesType](x, arrayValuesOptions): the table of isArray;
\* the one-parameter rules ignore the options
ArrayValueRule(arrayValuesType, x, arrayValuesOptions) ==
  CASE arrayValuesType = Str("String") -> validateString(x, arrayValuesOptions)
    [] arrayValuesType = Str("Number") -> isNumber(x, arrayValuesOptions)
    [] arrayValuesType = Str("Date") -> isDate(x)
    [] arrayValuesType = Str("Boolean") -> isBoolean(x)
    [] arrayValuesType = Str("Email") -> isEmail(x)
    [] arrayValuesType = Str("URL") -> isURL(x)
    [] arrayValuesType = Str("Mongo") -> isMongo(x)
    [] arrayValuesType = Str("Array") -> isArray(x, arrayValuesOptions)
    [] OTHER -> Throw(NotAFunction)

\* the callback of array.map: success, or the element's message after its
\* stringified value
Prefixed(x, result) ==
  IF result.k = "throw" \/ result = Ret(success) THEN result
  ELSE IF StringifyThrows(x) THEN Throw(ToPrimitiveError)
  ELSE Ret("'" \o Stringify(x) \o "' " \o result.v)

ArrayRecord(arrayValuesType, x, arrayValuesOptions) ==
  Prefixed(x, ArrayValueRule(arrayValuesType, x, arrayValuesOptions))

\* the elements' outcomes that are not success, in order
RECURSIVE SelectErrors(_)
SelectErrors(outcomes) ==
  IF outcomes = <<>> THEN <<>>
  ELSE (IF Head(outcomes) = Ret(success) THEN <<>> ELSE <<Head(outcomes).v>>)
       \o SelectErrors(Tail(outcomes))

ArrayMarker == "- error validate array records - "

\* what the first raising call of array.map raised
RECURSIVE FirstThrown(_)
FirstThrown(outcomes) ==
  IF Head(outcomes).k = "throw" THEN Head(outcomes)
  ELSE FirstThrown(Tail(outcomes))

\* an isArray that reports the first failing element only
ArrayRecordsFirstOnly(validateArray) ==
  IF \E i \in 1..Len(validateArray) : validateArray[i].k = "throw"
    THEN FirstThrown(validateArray)
  ELSE IF Len(SelectErrors(validateArray)) > 0
    THEN Ret(ArrayMarker \o Head(SelectErrors(validateArray)))
  ELSE Ret(success)

\* isArray after array.map gave validateArray
ArrayRecords(validateArray) ==
  IF \E i \in 1..Len(validateArray) : validateArray[i].k = "throw"
    THEN FirstThrown(validateArray)
  ELSE IF Len(SelectErrors(validateArray)) > 0
    THEN Ret(ArrayMarker \o Join(SelectErrors(validateArray), " | "))
  ELSE Ret(success)

isArray(array, options) ==
  IF array.t # "array" THEN Ret("must be Array!")
  ELSE IF ~Truthy(options) THEN Ret(success)
  ELSE
    LET min == Get(options, "minRecords")
        max == Get(options, "maxRecords")
    IN IF Truthy(min) /\ Truthy(max) /\ min.n > max.n
         THEN Throw(WrongArrayParams)
       ELSE IF Truthy(min) /\ Len(array.a) < min.n
         THEN Ret("must have min " \o Stringify(min) \o " records!")
       ELSE IF Truthy(max) /\ Len(array.a) > max.n
         THEN Ret("must have max " \o Stringify(max) \o " records!")
       ELSE IF ~Truthy(Get(options, "arrayValuesType")) THEN Ret(success)
       ELSE ArrayRecords([i \in 1..Len(array.a) |->
              ArrayRecord(Get(options, "arrayValuesType"), array.a[i],
                          Get(options, "arrayValuesOptions"))])

\* field.split('.')
RECURSIVE Split(_)
Split(field) ==
  LET dots == {i \in 1..Len(field) : CharAt(field, i) = "."} IN
    IF dots = {} THEN <<field>>
    ELSE LET i == CHOOSE i \in dots : \A j \in dots : i <= j
         IN <<SubSeq(field, 1, i - 1)>> \o Split(SubSeq(field, i + 1, Len(field)))

\* acc[el] for a truthy acc: an own property of a plain object; a primitive
\* or an array has no property named like a segment of a field of this model
\* (no field is named after a built-in such as length or constructor)
Member(acc, el) == Get(acc, el)

\* segments.reduce((acc, el) => acc ? acc[el] : null, acc)
RECURSIVE Reduce(_, _)
Reduce(segments, acc) ==
  IF segments = <<>> THEN acc
  ELSE Reduce(Tail(segments),
              IF Truthy(acc) THEN Member(acc, Head(segments)) ELSE Null)

\* a resolution whose reducer reads acc[el] without testing acc: it raises
\* on the first null or undefined value on the way
RECURSIVE ReduceUnguarded(_, _)
ReduceUnguarded(segments, acc) ==
  IF segments = <<>> THEN Ret(acc)
  ELSE IF acc.t \in {"null", "undefined"}
    THEN Throw("TypeError: Cannot read properties of " \o Stringify(acc))
  ELSE ReduceUnguarded(Tail(segments), Member(acc, Head(segments)))

getBodyFieldUnguarded(body, field) ==
  IF TypeOf(body) # "object" THEN Ret(Null)
  ELSE IF Len(Trim(field)) = 0 THEN Ret(Null)
  ELSE ReduceUnguarded(Split(field), body)

getBodyField(body, field) ==
  IF TypeOf(body) # "object" THEN Ret(Null)
  ELSE IF Len(Trim(field)) = 0 THEN Ret(Null)
  ELSE Ret(Reduce(Split(field), body))

----------------------------------------------------------------------------
(* class Validator, src/index.js.  F maps each Validator instance to its    *)
(* private #fields: the registered fields in insertion order, each with the *)
(* options its validate closure captured.                                   *)

validTypes ==
  {"String", "Number", "Date", "Boolean", "Email", "URL", "Mongo", "Array"}

Names(entries) == {entries[i].name : i \in 1..Len(entries)}

\* an addField without the test for a registered name: it registers the
\* descriptor again, in place of the one registered under that name
addFieldOverwriting(F, id, field) ==
  LET name == Get(field, "name")
      type == Get(field, "type")
      entry == [name |-> Stringify(name), type |-> type.s,
                options |-> IF Get(field, "options") = Undefined THEN EmptyObj
                            ELSE Get(field, "options"),
                required |-> IF Get(field, "required") = Undefined
                             THEN Bool(FALSE) ELSE Get(field, "required"),
                validator |-> IF type.s = "Array" THEN Get(field, "validator")
                              ELSE Undefined]
      failed(m) == [out |-> Throw(m), fields |-> F]
  IN IF TypeOf(field) # "object"
       THEN failed("Invalid 'field'! Must be object")
     ELSE IF field = Null
       THEN failed("TypeError: Cannot convert undefined or null to object")
     ELSE IF ~HasKey(field, "name") THEN failed("Missing field 'name'")
     ELSE IF ~HasKey(field, "type") THEN failed("Missing field 'type'")
     ELSE IF StringifyThrows(name) THEN failed(ToPrimitiveError)
     ELSE IF type.t # "string" \/ type.s \notin validTypes
       THEN failed("Invalid 'type'!")
     ELSE IF Truthy(Get(field, "validator")) /\ Get(field, "validator").t # "instance"
       THEN failed("Invalid validator! Must be instance of Validator class!")
     ELSE IF entry.name \in Names(F[id])
       THEN [out |-> Ret(Undefined),
             fields |-> [F EXCEPT ![id] =
               [i \in 1..Len(@) |-> IF @[i].name = entry.name THEN entry ELSE @[i]]]]
     ELSE [out |-> Ret(Undefined), fields |-> [F EXCEPT ![id] = Append(@, entry)]]

\* addField's outcome and the registries after it
addField(F, id, field) ==
  LET name == Get(field, "name")
      type == Get(field, "type")
      options == IF Get(field, "options") = Undefined THEN EmptyObj
                 ELSE Get(field, "options")
      required == IF Get(field, "required") = Undefined THEN Bool(FALSE)
                  ELSE Get(field, "required")
      validator == Get(field, "validator")
      failed(m) == [out |-> Throw(m), fields |-> F]
  IN IF TypeOf(field) # "object"
       THEN failed("Invalid 'field'! Must be object")
     ELSE IF field = Null
       THEN failed("TypeError: Cannot convert undefined or null to object")
     ELSE IF ~HasKey(field, "name") THEN failed("Missing field 'name'")
     ELSE IF ~HasKey(field, "type") THEN failed("Missing field 'type'")
     ELSE IF StringifyThrows(name) THEN failed(ToPrimitiveError)
     ELSE IF Stringify(name) \in Names(F[id])
       THEN failed("Already have field with name '" \o Stringify(name) \o "'")
     ELSE IF type.t # "string" \/ type.s \notin validTypes
       THEN failed("Invalid 'type'!")
     ELSE IF Truthy(validator) /\ validator.t # "instance"
       THEN failed("Invalid validator! Must be instance of Validator class!")
     ELSE [out |-> Ret(Undefined),
           fields |-> [F EXCEPT ![id] = Append(@,
             [name |-> Stringify(name), type |-> type.s, options |-> options,
              required |-> required,
              validator |-> IF type.s = "Array" THEN validator ELSE Undefined])]]

\* this.#fields[key].validate(value): the closure addField stored
FieldValidate(entry, value) ==
  CASE entry.type = "String" -> validateString(value, entry.options)
    [] entry.type = "Number" -> isNumber(value, entry.options)
    [] entry.type = "Date" -> isDate(value)
    [] entry.type = "Boolean" -> isBoolean(value)
    [] entry.type = "Email" -> isEmail(value)
    [] entry.type = "URL" -> isURL(value)
    [] entry.type = "Mongo" -> isMongo(value)
    [] entry.type = "Array" -> isArray(value, entry.options)

validateSingle(F, id, field, value) ==
  IF field \notin Names(F[id])
    THEN Throw("This validator don't have field '" \o field \o "'")
  ELSE IF value = Undefined THEN Throw("Missing 'value'!")
  ELSE FieldValidate(
         F[id][CHOOSE i \in 1..Len(F[id]) : F[id][i].name = field], value)

\* the Validation Result of an `errors` array
Aggregate(errors) ==
  IF Len(errors) > 0
  THEN [success |-> FALSE, errors |-> Str(Join(errors, " | "))]
  ELSE [success |-> TRUE, errors |-> Null]

\* strict = true, the default of a missing argument
StrictOrDefault(strict) == IF strict = Undefined THEN Bool(TRUE) ELSE strict

RECURSIVE validateErrors(_, _, _, _)

\* the return statement of validate (and what it raised before reaching it)
Returned(errors) ==
  IF errors.k = "throw" THEN errors ELSE Ret(Aggregate(errors.v))

\* validate's outcome: the Validation Result, or what it raised
validate(F, id, body, strict) == Returned(validateErrors(F, id, body, strict))

\* a validateObject that never consults the nested validator
NestedValidateSkipped(F, entry, bodyField) == Ret(Aggregate(<<>>))

\* the nested validator's result for a field that has one; a field without
\* one pushes no nested message, as for a successful result.  The call passes
\* no second argument.
NestedValidate(F, entry, bodyField) ==
  IF entry.type = "Array" /\ Truthy(entry.validator)
  THEN validate(F, entry.validator.id, bodyField, Undefined)
  ELSE Ret(Aggregate(<<>>))

\* `if (bodyField) { ... }`: the rule's outcome is computed first, then the
\* nested validator's, whose message is pushed first
PresentField(key, validateField, validateArray) ==
  IF validateField.k = "throw" THEN validateField
  ELSE IF validateArray.k = "throw" THEN validateArray
  ELSE Ret((IF ~validateArray.v.success
            THEN <<"'" \o key \o "' " \o validateArray.v.errors.s>> ELSE <<>>)
           \o (IF validateField.v # success
               THEN <<"'" \o key \o "' " \o validateField.v>> ELSE <<>>))

\* the forEach callback after getBodyField gave `got`
ResolvedField(F, entry, strict, got) ==
  IF got.k = "throw" THEN got
  ELSE IF ~Truthy(got.v) /\ Truthy(entry.required) /\ Truthy(strict)
    THEN Ret(<<"Missing field '" \o entry.name \o "'">>)
  ELSE IF ~Truthy(got.v) THEN Ret(<<>>)
  ELSE PresentField(entry.name, FieldValidate(entry, got.v),
                    NestedValidate(F, entry, got.v))

\* the forEach callback of validate's validateObject for one key: the
\* messages it pushes on `errors`, or what it raised
validateKey(F, entry, current, strict) ==
  ResolvedField(F, entry, strict, getBodyField(current, entry.name))

Pushed(outcome, rest) ==
  IF rest.k = "throw" THEN rest ELSE Ret(outcome.v \o rest.v)

\* a run of calls that each push messages or raise: the messages pushed, in
\* order, or what the first raising call raised
RECURSIVE Collect(_)
Collect(outcomes) ==
  IF outcomes = <<>> THEN Ret(<<>>)
  ELSE IF Head(outcomes).k = "throw" THEN Head(outcomes)
  ELSE Pushed(Head(outcomes), Collect(Tail(outcomes)))

\* validateObject(current) of validate: every key of #fields in order
validateObject(F, id, current, strict) ==
  Collect([i \in 1..Len(F[id]) |-> validateKey(F, F[id][i], current, strict)])

\* the objects validateObject is called for: the elements of an array body,
\* else the body
Objects(body) == IF body.t = "array" THEN body.a ELSE <<body>>

\* `errors` when validate reaches its return statement, or what it raised
validateErrors(F, id, body, strict) ==
  Collect([i \in 1..Len(Objects(body)) |->
    validateObject(F, id, Objects(body)[i], StrictOrDefault(strict))])

DefaultErrStatus == 422

\* The handler that middleware returns declares its own validateObject (it
\* does not call validate for the request's body).
HandlerNested(F, entry, bodyField) ==
  IF entry.type = "Array" /\ Truthy(entry.validator)
  THEN validate(F, entry.validator.id, bodyField, Undefined)
  ELSE Ret(Aggregate(<<>>))

HandlerPresentField(key, validateField, validateArray) ==
  IF validateField.k = "throw" THEN validateField
  ELSE IF validateArray.k = "throw" THEN validateArray
  ELSE Ret((IF ~validateArray.v.success
            THEN <<"'" \o key \o "' " \o validateArray.v.errors.s>> ELSE <<>>)
           \o (IF validateField.v # success
               THEN <<"'" \o key \o "' " \o validateField.v>> ELSE <<>>))

\* a handler that reports a missing required field whatever `strict` is
HandlerResolvedFieldAlwaysStrict(F, entry, strict, got) ==
  IF got.k = "throw" THEN got
  ELSE IF ~Truthy(got.v) /\ Truthy(entry.required)
    THEN Ret(<<"Missing field '" \o entry.name \o "'">>)
  ELSE IF ~Truthy(got.v) THEN Ret(<<>>)
  ELSE HandlerPresentField(entry.name, FieldValidate(entry, got.v),
                           HandlerNested(F, entry, got.v))

HandlerResolvedField(F, entry, strict, got) ==
  IF got.k = "throw" THEN got
  ELSE IF ~Truthy(got.v) /\ Truthy(entry.required) /\ Truthy(strict)
    THEN Ret(<<"Missing field '" \o entry.name \o "'">>)
  ELSE IF ~Truthy(got.v) THEN Ret(<<>>)
  ELSE HandlerPresentField(entry.name, FieldValidate(entry, got.v),
                           HandlerNested(F, entry, got.v))

middlewareKey(F, entry, current, strict) ==
  HandlerResolvedField(F, entry, strict, getBodyField(current, entry.name))

middlewareObject(F, id, current, strict) ==
  Collect([i \in 1..Len(F[id]) |-> middlewareKey(F, F[id][i], current, strict)])

\* `errors` when the handler reaches its return statement, or what it raised
middlewareErrors(F, id, body, strict) ==
  Collect([i \in 1..Len(Objects(body)) |->
    middlewareObject(F, id, Objects(body)[i], StrictOrDefault(strict))])

\* the handler's return statement: res.status(errStatus).json(...) or next()
Respond(errors, errStatus) ==
  IF errors.k = "throw" THEN errors
  ELSE IF Len(errors.v) > 0
    THEN Ret([status |-> IF errStatus = Undefined THEN Num(DefaultErrStatus)
                         ELSE errStatus,
              nextCalls |-> 0,
              json |-> [success |-> FALSE, errors |-> Str(Join(errors.v, " | "))]])
  ELSE Ret([status |-> Undefined, nextCalls |-> 1, json |-> Undefined])

\* one request through the handler middleware(errStatus, strict) returns:
\* what it did to the response (status, json) and how often it called next,
\* or what it raised
middleware(F, id, errStatus, strict, req) ==
  Respond(middlewareErrors(F, id, Get(req, "body"), strict), errStatus)

----------------------------------------------------------------------------
(* The calls made on two Validator instances: playerValidator, whose Array  *)
(* field previousTeams may name addressValidator as its nested validator.   *)

PlayerValidator == "playerValidator"
AddressValidator == "addressValidator"
Validators == {PlayerValidator, AddressValidator}

\* the most fields the calls register on one instance
MaxFields == 2

ValidId == "61d9f9c62411e95f925d7c5e"

WellFormedFields ==
  {Obj([name |-> Str("active"), type |-> Str("Boolean"), required |-> Bool(TRUE)]),
   Obj([name |-> Str("number"), type |-> Str("Number"),
        options |-> Obj([min |-> Num(0), max |-> Num(99)]),
        required |-> Bool(TRUE)]),
   Obj([name |-> Str("number"), type |-> Str("Number"),
        options |-> Obj([min |-> Num(5), max |-> Num(1)])]),
   Obj([name |-> Str("previousTeams"), type |-> Str("Array"),
        options |-> Obj([minRecords |-> Num(1)]),
        validator |-> Inst(AddressValidator)]),
   Obj([name |-> Str("previousTeams"), type |-> Str("Array"),
        options |-> Obj([arrayValuesType |-> Str("Mongo")]),
        required |-> Bool(TRUE), validator |-> Inst(AddressValidator)]),
   Obj([name |-> Str("address.city"), type |-> Str("String"),
        required |-> Bool(TRUE)]),
   Obj([name |-> Str("address.city"), type |-> Str("String")])}

MalformedFields ==
  {Str("active"), Null,
   Obj([type |-> Str("String")]),
   Obj([name |-> Str("active")]),
   Obj([name |-> Str("active"), type |-> Str("Text")]),
   Obj([name |-> Str("photos"), type |-> Str("Array"), validator |-> EmptyObj])}

\* the descriptors handed to addField of each instance; addressValidator
\* nests no validator, so that no instance nests itself
FieldInputs(id) ==
  IF id = PlayerValidator THEN WellFormedFields \union MalformedFields
  ELSE {Obj([name |-> Str("team"), type |-> Str("Mongo"), required |-> Bool(TRUE)]),
        Obj([name |-> Str("team"), type |-> Str("Identifier")])}

Team(id) == Obj([team |-> Str(id)])

\* the records handed to validate and, as req.body, to the handler
RecordInputs(id) ==
  IF id = PlayerValidator THEN
    {Null, EmptyObj,
     Obj([active |-> Bool(FALSE), number |-> Num(0),
          address |-> Obj([city |-> Str("")])]),
     Obj([active |-> Bool(TRUE), number |-> Num(13),
          address |-> Obj([city |-> Str("Sofia")]),
          previousTeams |-> Arr(<<Team(ValidId), Team(ValidId)>>)]),
     Obj([previousTeams |-> Arr(<<Team("not-an-id")>>)]),
     Obj([previousTeams |-> Arr(<<EmptyObj>>), address |-> Null]),
     Obj([previousTeams |-> Str("none"), address |-> Str("Sofia")]),
     Obj([address |-> Obj([city |-> Obj([toString |-> Num(1)])])]),
     Arr(<<Obj([active |-> Bool(TRUE), number |-> Num(5),
                address |-> Obj([city |-> Str("Sofia")])]), Num(7)>>)}
  ELSE {Team("not-an-id"), EmptyObj}

\* validate(body), with the default, and validate(body, false)
StrictInputs == {Undefined, Bool(FALSE)}
\* middleware(), with both defaults, and middleware(400, false)
MiddlewareInputs ==
  {[errStatus |-> Undefined, strict |-> Undefined],
   [errStatus |-> Num(400), strict |-> Bool(FALSE)]}
SingleInputs == {Undefined, Num(150)}
SingleNames == {"number", "team"}

Init ==
  /\ fields = [id \in Validators |-> <<>>]
  /\ last = [op |-> "new"]

AddField ==
  \E id \in Validators : \E field \in FieldInputs(id) :
    /\ Len(fields[id]) < MaxFields
    /\ LET r == addField(fields, id, field) IN
         /\ fields' = r.fields
         /\ last' = [op |-> "addField", id |-> id, field |-> field, out |-> r.out]

ValidateSingle ==
  \E id \in {PlayerValidator} : \E field \in SingleNames : \E value \in SingleInputs :
    /\ last' = [op |-> "validateSingle", id |-> id, field |-> field,
                value |-> value, out |-> validateSingle(fields, id, field, value)]
    /\ UNCHANGED fields

Validate ==
  \E id \in Validators : \E body \in RecordInputs(id) : \E strict \in StrictInputs :
    /\ LET errors == validateErrors(fields, id, body, strict) IN
         last' = [op |-> "validate", id |-> id, body |-> body, strict |-> strict,
                  out |-> Returned(errors), errors |-> errors]
    /\ UNCHANGED fields

Middleware ==
  \E id \in {PlayerValidator} : \E body \in RecordInputs(id) :
  \E args \in MiddlewareInputs :
    /\ last' = [op |-> "middleware", id |-> id, body |-> body,
                strict |-> args.strict, errStatus |-> args.errStatus,
                out |-> middleware(fields, id, args.errStatus, args.strict,
                                   Obj([body |-> body]))]
    /\ UNCHANGED fields

Next == AddField \/ ValidateSingle \/ Validate \/ Middleware

Spec == Init /\ [][Next]_vars

----------------------------------------------------------------------------
(* Properties of the Validator calls, checked under Spec.                   *)

Range(seq) == {seq[i] : i \in 1..Len(seq)}

\* the last call was validate and it returned
ValidateReturned == last.op = "validate" /\ last.out.k = "return"

\* the record has an own property at every segment of the path: the path
\* resolves to a value that is present in the record
RECURSIVE HasPath(_, _)
HasPath(record, segments) ==
  /\ HasKey(record, Head(segments))
  /\ (Len(segments) = 1 \/ HasPath(record.o[Head(segments)], Tail(segments)))

\* the value a present path resolves to
RECURSIVE ValueAt(_, _)
ValueAt(record, segments) ==
  IF Len(segments) = 1 THEN record.o[Head(segments)]
  ELSE ValueAt(record.o[Head(segments)], Tail(segments))

MissingField(name) == "Missing field '" \o name \o "'"

\* C1: validate(record, strict=false) records no "Missing field '<name>'"
\* error at any nesting level.
C1_NoMissingFieldUnlessStrict ==
  (ValidateReturned /\ last.strict = Bool(FALSE) /\ ~last.out.v.success)
    => ~Includes(last.out.v.errors.s, "Missing field '")

\* C2: a registered field whose path resolves to a value present in the
\* record (false, 0 and the empty string included) is passed to its rule: it
\* is not reported as missing, and a rule outcome other than success is
\* recorded as "'<name>' <message>".
C2_PresentFieldReachesItsRule ==
  (ValidateReturned /\ last.body.t = "object") =>
    \A i \in 1..Len(fields[last.id]) :
      LET entry == fields[last.id][i]
          path == Split(entry.name)
      IN HasPath(last.body, path) =>
           /\ MissingField(entry.name) \notin Range(last.errors.v)
           /\ LET outcome == FieldValidate(entry, ValueAt(last.body, path)) IN
                (outcome.k = "return" /\ outcome.v # success) =>
                  ("'" \o entry.name \o "' " \o outcome.v) \in Range(last.errors.v)

\* minRecords and maxRecords are both set, not 0, and contradict each other
ContradictoryRecords(options) ==
  /\ Truthy(Get(options, "minRecords")) /\ Truthy(Get(options, "maxRecords"))
  /\ Get(options, "minRecords").n > Get(options, "maxRecords").n

\* the length of the array is within every bound that is set and is not 0
WithinRecords(array, options) ==
  /\ Truthy(Get(options, "minRecords")) =>
       Len(array.a) >= Get(options, "minRecords").n
  /\ Truthy(Get(options, "maxRecords")) =>
       Len(array.a) <= Get(options, "maxRecords").n

\* arrayValuesType names one of the rules
RecognizedValuesType(options) ==
  /\ Get(options, "arrayValuesType").t = "string"
  /\ Get(options, "arrayValuesType").s \in validTypes

\* the registered field previousTeams of playerValidator, in the scenario:
\* an Array field whose nested validator requires team as an identifier
PreviousTeams ==
  fields[PlayerValidator][CHOOSE i \in 1..Len(fields[PlayerValidator]) :
    fields[PlayerValidator][i].name = "previousTeams"]

ScenarioC ==
  /\ last.op = "validate"
  /\ last.id = PlayerValidator
  /\ last.body = Obj([previousTeams |-> Arr(<<Team("not-an-id")>>)])
  /\ "previousTeams" \in Names(fields[PlayerValidator])
  /\ PreviousTeams.type = "Array"
  /\ PreviousTeams.validator = Inst(AddressValidator)
  /\ \E i \in 1..Len(fields[AddressValidator]) :
       /\ fields[AddressValidator][i].name = "team"
       /\ fields[AddressValidator][i].type = "Mongo"
       /\ Truthy(fields[AddressValidator][i].required)

NestedSchemaError == "'previousTeams' 'team' must be valid MongoDB Id!"

\* an entry of `errors`: the array-element type error of previousTeams
IsElementError(e) ==
  LET prefix == "'previousTeams' " \o ArrayMarker IN
    Len(e) > Len(prefix) /\ SubSeq(e, 1, Len(prefix)) = prefix

Translated(result, errStatus) ==
  IF result.success
  THEN [status |-> Undefined, nextCalls |-> 1, json |-> Undefined]
  ELSE [status |-> IF errStatus = Undefined THEN Num(DefaultErrStatus)
                   ELSE errStatus,
        nextCalls |-> 0, json |-> result]

\* C7 as claimed: the handler does exactly one of two things, according to
\* what validate(body, strict) returns: it calls next, once and without
\* touching the response, when validate returns success; otherwise it sets
\* the status to errorStatus and emits the value validate returns.
C7_HandlerTranslatesValidate ==
  last.op = "middleware" =>
    LET result == validate(fields, last.id, last.body, last.strict) IN
      /\ result.k = "return"
      /\ last.out = Ret(Translated(result.v, last.errStatus))

\* C7 as amended: the same whenever validate(body, strict) returns; when it
\* raises, the handler raises the same error and does neither.
C7_HandlerTranslatesOrRaises ==
  last.op = "middleware" =>
    LET result == validate(fields, last.id, last.body, last.strict) IN
      IF result.k = "throw" THEN last.out = result
      ELSE last.out = Ret(Translated(result.v, last.errStatus))

C7_Witness ==
  /\ last.op = "middleware"
  /\ last.strict = Bool(FALSE)
  /\ last.out.k = "return"
  /\ last.out.v.nextCalls = 0
  /\ last.out.v.status = Num(400)
  /\ last.out.v.json = validate(fields, last.id, last.body, last.strict).v
  /\ \E i \in 1..Len(fields[last.id]) : Truthy(fields[last.id][i].required)

\* no registered field of any instance has contradictory bounds
NoContradictoryBounds ==
  \A id \in Validators : \A i \in 1..Len(fields[id]) :
    LET options == fields[id][i].options IN
      /\ ~(/\ Get(options, "min").t = "number" /\ Get(options, "max").t = "number"
           /\ Get(options, "min").n > Get(options, "max").n)
      /\ ~(/\ Get(options, "minRecords").t = "number"
           /\ Get(options, "maxRecords").t = "number"
           /\ Get(options, "minRecords").n > Get(options, "maxRecords").n)

\* C8: with no contradictory bounds registered, validate returns a
\* Validation Result for every record, and success is true exactly when
\* errors is null.
C8_ValidateNeverRaises ==
  (last.op = "validate" /\ NoContradictoryBounds) =>
    /\ last.out.k = "return"
    /\ last.out.v.success <=> last.out.v.errors = Null

\* a descriptor that addField must reject on the registry `entries`: it has
\* no name or no type, its name is registered, its type is not recognized,
\* or its nested validator is not a Validator
DefinitionError(entries, field) ==
  \/ ~HasKey(field, "name")
  \/ ~HasKey(field, "type")
  \/ Get(field, "name") \in {Str(n) : n \in Names(entries)}
  \/ Get(field, "type") \notin {Str(type) : type \in validTypes}
  \/ (Truthy(Get(field, "validator")) /\ Get(field, "validator").t # "instance")

\* the descriptor was appended, as registered, after the fields there were
AppendedOne(before, after, field) ==
  /\ Len(after) = Len(before) + 1
  /\ SubSeq(after, 1, Len(before)) = before
  /\ after[Len(after)].name \notin Names(before)
  /\ Str(after[Len(after)].name) = Get(field, "name")
  /\ Str(after[Len(after)].type) = Get(field, "type")

\* C9: only an addField that succeeds changes a registry: it appends one
\* field under a new name to its own registry and leaves every earlier
\* descriptor as it was; an addField that fails with a definition error, and
\* every validate, validateSingle and handler call, leave every registry as
\* it was.
C9_OnlyAddFieldAppends ==
  [][/\ (last'.op = "addField" /\ last'.out.k = "return") =>
          /\ AppendedOne(fields[last'.id], fields'[last'.id], last'.field)
          /\ \A id \in Validators \ {last'.id} : fields'[id] = fields[id]
     /\ (last'.op = "addField" /\ DefinitionError(fields[last'.id], last'.field)) =>
          last'.out.k = "throw"
     /\ (last'.op # "addField" \/ last'.out.k = "throw") => fields' = fields
    ]_vars

C9_Witness ==
  /\ last.op = "addField"
  /\ last.out = Throw("Already have field with name 'number'")
  /\ Len(fields[last.id]) = 1
  /\ fields[last.id][1].name = "number"
  /\ Get(fields[last.id][1].options, "max") # Get(Get(last.field, "options"), "max")

\* the path is absent from the record: a segment is not there, or the value
\* on the way to it is null or not an object
RECURSIVE AbsentPath(_, _)
AbsentPath(record, segments) ==
  \/ record.t # "object"
  \/ ~HasKey(record, Head(segments))
  \/ (Len(segments) > 1 /\ AbsentPath(record.o[Head(segments)], Tail(segments)))

\* the errors a rule may raise, which are not errors of resolving a path
RuleErrors ==
  {ToPrimitiveError, WrongNumberParams, WrongArrayParams, NotAFunction}

\* C10: for a field registered under a dotted path, validate descends the
\* record segment by segment: {address:{city:"Sofia"}} gives the String rule
\* the value "Sofia", which records nothing for the field (and succeeds when
\* it is the only field); a record from which the path is absent records
\* "Missing field" exactly when the field is required and strict holds,
\* records nothing else for the field, and resolving never raises.
C10_DottedPathResolution ==
  (last.op = "validate" /\ last.body.t # "array") =>
    \A i \in 1..Len(fields[last.id]) :
      LET entry == fields[last.id][i]
          path == Split(entry.name)
          about == {e \in Range(last.errors.v) :
                      Includes(e, "'" \o entry.name \o "'")}
      IN Len(path) > 1 =>
           /\ last.out.k = "throw" => last.out.m \in RuleErrors
           /\ (/\ last.out.k = "return" /\ entry.type = "String"
               /\ HasPath(last.body, path)
               /\ ValueAt(last.body, path) = Str("Sofia")) =>
                 /\ about = {}
                 /\ Len(fields[last.id]) = 1 => last.out.v.success
           /\ (last.out.k = "return" /\ AbsentPath(last.body, path)) =>
                 about = IF Truthy(entry.required)
                            /\ Truthy(StrictOrDefault(last.strict))
                         THEN {MissingField(entry.name)} ELSE {}

C10_Witness ==
  /\ ValidateReturned
  /\ last.body = Obj([previousTeams |-> Arr(<<EmptyObj>>), address |-> Null])
  /\ StrictOrDefault(last.strict) = Bool(TRUE)
  /\ \E i \in 1..Len(fields[last.id]) :
       /\ fields[last.id][i].name = "address.city"
       /\ Truthy(fields[last.id][i].required)
  /\ MissingField("address.city") \in Range(last.errors.v)

----------------------------------------------------------------------------
(* The rules called on their own (they are exported): every call is drawn   *)
(* at the start and then made.                                              *)

Pending == [k |-> "pending"]

\* numbers run over -MaxNumber..MaxNumber, arrays hold up to MaxElements
MaxNumber == 2
MaxElements == 2

Numbers == {Num(n) : n \in (0 - MaxNumber)..MaxNumber}

NumberValues == Numbers \union {Str("2"), Str(" -1 "), Str("two"), Undefined}

NumberOptions ==
  {Obj([min |-> a, max |-> b]) : a \in Numbers, b \in Numbers}
  \union {Obj([min |-> a]) : a \in Numbers}
  \union {Obj([max |-> b]) : b \in Numbers}
  \union {EmptyObj, Undefined}

\* the options `set`, and each of them with `key` set to each of `values`
WithOption(set, key, values) ==
  set \union {Obj(o.o @@ (key :> v)) : o \in set, v \in values}

StringOptions ==
  WithOption(WithOption(WithOption(WithOption(WithOption(WithOption(WithOption(
  WithOption({EmptyObj},
    "enum", {Arr(<<Str("a"), Str("b")>>), Arr(<<Str("ab")>>)}),
    "minSymbols", {Num(2)}),
    "maxSymbols", {Num(1)}),
    "canBeEmpty", {Bool(FALSE)}),
    "allowSpaces", {Bool(FALSE), Bool(TRUE)}),
    "include", {Str("lettersOnly"), Str("numbersOnly"), Str("lettersAndNumbers")}),
    "blackList", {Arr(<<Str("b")>>)}),
    "maxWords", {Num(1)})

StringValues ==
  {Str(""), Str(" "), Str("a"), Str("b"), Str("ab"), Str("a b"), Str(" a"),
   Str("1"), Num(1), Undefined}

ArrayElements ==
  {Num(1), Num(2), Str("a"), Bool(FALSE), Obj([toString |-> Num(1)])}

ArrayValues ==
  {Arr(a) : a \in UNION {[1..n -> ArrayElements] : n \in 0..MaxElements}}
  \union {Str("a")}

ArrayOptions ==
  WithOption(WithOption(WithOption(WithOption({EmptyObj},
    "arrayValuesType", {Str("Number"), Str("String"), Str("Boolean"), Str("Text")}),
    "arrayValuesOptions", {Obj([max |-> Num(1)])}),
    "minRecords", {Num(0), Num(1), Num(2)}),
    "maxRecords", {Num(0), Num(1)})

\* the call drawn: its rule, its arguments, and no outcome yet
RuleCall(op, value, options) ==
  [op |-> op, value |-> value, options |-> options, out |-> Pending]

RulesInit ==
  /\ fields = [id \in Validators |-> <<>>]
  /\ \/ \E v \in NumberValues : \E o \in NumberOptions :
          last = RuleCall("isNumber", v, o)
     \/ \E v \in StringValues : \E o \in StringOptions :
          last = RuleCall("validateString", v, o)
     \/ \E v \in ArrayValues : \E o \in ArrayOptions :
          last = RuleCall("isArray", v, o)

CallIsNumber ==
  /\ last.op = "isNumber" /\ last.out = Pending
  /\ last' = [last EXCEPT !.out = isNumber(last.value, last.options)]
  /\ UNCHANGED fields

CallValidateString ==
  /\ last.op = "validateString" /\ last.out = Pending
  /\ last' = [last EXCEPT !.out = validateString(last.value, last.options)]
  /\ UNCHANGED fields

CallIsArray ==
  /\ last.op = "isArray" /\ last.out = Pending
  /\ last' = [last EXCEPT !.out = isArray(last.value, last.options)]
  /\ UNCHANGED fields

RulesNext == CallIsNumber \/ CallValidateString \/ CallIsArray

SpecRules == RulesInit /\ [][RulesNext]_vars

\* the rule `op` was called and the call is over
Called(op) == last.op = op /\ last.out # Pending

\* C3: for a Number rule with min <= max both set, a numeric value below min
\* yields the min message, one above max the max message, and every value
\* from min to max (0 included) yields success.
C3_NumberBounds ==
  (/\ Called("isNumber") /\ last.value.t = "number"
   /\ HasKey(last.options, "min") /\ HasKey(last.options, "max")
   /\ last.options.o.min.n <= last.options.o.max.n) =>
    LET min == last.options.o.min.n
        max == last.options.o.max.n
    IN last.out = IF last.value.n < min
                    THEN Ret("must be min " \o ToString(min) \o "!")
                  ELSE IF last.value.n > max
                    THEN Ret("must be max " \o ToString(max) \o "!")
                  ELSE Ret(success)

\* the allowed values of an enum option, joined by "or"
AllowedValues(enum) == Join([i \in 1..Len(enum.a) |-> enum.a[i].s], " or ")

\* C4: for a String rule with an enum option, a string that is not one of
\* the allowed strings yields a message that contains every allowed value
\* joined by "or", whatever the other options are.
C4_EnumViolationReported ==
  (/\ Called("validateString") /\ last.value.t = "string"
   /\ HasKey(last.options, "enum")
   /\ last.value \notin Range(last.options.o.enum.a)) =>
    /\ last.out.k = "return"
    /\ Includes(last.out.v, AllowedValues(last.options.o.enum))

\* the elements of the array that do not pass the rule of arrayValuesType
FailingElements(array, options) ==
  {i \in 1..Len(array.a) :
     ArrayValueRule(Get(options, "arrayValuesType"), array.a[i],
                    Get(options, "arrayValuesOptions")) # Ret(success)}

Mentions(message, x) == Includes(message, "'" \o Stringify(x) \o "' ")

C11_ContradictoryBoundsRaise ==
  /\ (/\ Called("isNumber") /\ last.value.t = "number"
      /\ HasKey(last.options, "min") /\ HasKey(last.options, "max")
      /\ last.options.o.min.n > last.options.o.max.n) =>
       last.out = Throw(WrongNumberParams)
  /\ (/\ Called("isArray") /\ last.value.t = "array"
      /\ HasKey(last.options, "minRecords") /\ HasKey(last.options, "maxRecords")
      /\ last.options.o.minRecords.n > last.options.o.maxRecords.n) =>
       last.out = Throw(WrongArrayParams)

SpacesMessage == "can't include spaces"

\* C12: for the String rule with allowSpaces=false, the "can't include
\* spaces" error is produced exactly when the value contains a space
\* character, and a non-empty value without a space, under no other
\* constraint, yields success.
C12_SpacesRejectedExactly ==
  (/\ Called("validateString") /\ last.value.t = "string"
   /\ Get(last.options, "allowSpaces") = Bool(FALSE)) =>
    /\ last.out.k = "return"
    /\ Includes(last.out.v, SpacesMessage) <=> Includes(last.value.s, " ")
    /\ (/\ last.options = Obj([allowSpaces |-> Bool(FALSE)])
        /\ Len(last.value.s) > 0 /\ ~Includes(last.value.s, " ")) =>
         last.out = Ret(success)

====
